---- MODULE Spec2Model ----
(***************************************************************************)
(* A state-machine model of the functions relay (src/src/index.ts): an     *)
(* oak application of two middlewares (error boundary, gate + relay) in    *)
(* front of one origin.  Spec follows one connection from the arrival of   *)
(* its request to the response (HTTP) or to the end of its WebSocket       *)
(* session; SessionSpec follows one WebSocket session with the frames of   *)
(* both sides; ConcSpec follows two connections whose handlers interleave. *)
(*                                                                         *)
(* Representation of JavaScript values:                                    *)
(*  - a header value is a sequence of atoms; the atom " " is one space and *)
(*    every other atom is a string without spaces, so that                 *)
(*    "Bearer abc" is <<"Bearer", " ", "abc">>;                            *)
(*  - a Headers object is its header list: a sequence of [name, value];    *)
(*  - a URL is the record of its components, port "" meaning no explicit   *)
(*    port, exactly as the URL getters of the platform return them;        *)
(*  - a host string "h:p" is <<h, ":", p>>, and "h" is <<h>>.              *)
(***************************************************************************)
EXTENDS Integers, Sequences, FiniteSets, TLC

VARIABLES
  JWT_SECRET,   \* index.ts:14  secret the tokens are verified against
  DENO_ORIGIN,  \* index.ts:16  the configured origin URL, as written
  VERIFY_JWT,   \* index.ts:18  whether JWT enforcement is enabled
  pc,           \* where the inner middleware of the connection is suspended
  inbound,      \* history: the request exactly as it was received
  request,      \* ctx.request (its url object is patched in place)
  response,     \* ctx.response
  token,        \* the local `token` of the inner middleware
  failure,      \* history: the failure thrown in the inner stage, if any
  caught,       \* history: how many times the error boundary ran its catch
  authLog,      \* history: which steps of the credential check ran
  outbound,     \* history: what was sent to the origin (fetch / WebSocket)
  fetched,      \* history: the response fetch resolved with, if any
  replied,      \* history: the origin's response to the forwarded request
  upstream,     \* the origin-side WebSocket of relayWebsocket
  downstream,   \* the caller-side WebSocket of relayWebsocket
  closeEvents,  \* history: how many close events the two sockets dispatched
  callerSent,   \* history: the frames the caller sent on its connection
  originSent,   \* history: the frames the origin sent on its connection
  toOrigin,     \* history: the frames handed to the origin (upstream.send)
  toCaller,     \* history: the frames handed to the caller (downstream.send)
  uncaught,     \* the exception that left a socket callback uncaught, if any
  conns,        \* the contexts of the connections that are handled concurrently
  alone         \* history: each of them as its own events alone leave it

vars == <<JWT_SECRET, DENO_ORIGIN, VERIFY_JWT, pc, inbound, request, response,
          token, failure, caught, authLog, outbound, fetched, replied,
          upstream, downstream, closeEvents, callerSent, originSent, toOrigin,
          toCaller, uncaught, conns, alone>>

config == <<JWT_SECRET, DENO_ORIGIN, VERIFY_JWT>>

\* the frame traffic of the WebSocket session
frames == <<callerSent, originSent, toOrigin, toCaller>>

\* the connections that are handled concurrently
crowd == <<conns, alone>>

\* the connection that is followed on its own
single == <<pc, inbound, request, response, token, failure, caught, authLog,
            outbound, fetched, replied, upstream, downstream, closeEvents,
            callerSent, originSent, toOrigin, toCaller, uncaught>>

-----------------------------------------------------------------------------
(* Bounds *)

\* longest header list of an origin response that is enumerated
MaxHdrs == 2

\* how many frames each side of a WebSocket session sends
MaxFrames == 2

\* how many frames each side of a session sends when several connections are
\* handled concurrently
MaxConcFrames == 1

-----------------------------------------------------------------------------
(* JavaScript values *)

Null == <<"<null>">>
Undefined == <<"<undefined>">>

\* !v for a string-or-null v
Falsy(v) == v = Null \/ v = Undefined \/ v = <<>>

\* String.prototype.toLowerCase on the strings the model uses
toLowerCase(s) ==
  CASE s = "Authorization" -> "authorization"
    [] s = "Upgrade" -> "upgrade"
    [] s = "Accept" -> "accept"
    [] s = "X-Forwarded-Host" -> "x-forwarded-host"
    [] s = "Set-Cookie" -> "set-cookie"
    [] s = "SET-COOKIE" -> "set-cookie"
    [] s = "Vary" -> "vary"
    [] s = "Location" -> "location"
    [] s = "X-Request-Id" -> "x-request-id"
    [] s = "WebSocket" -> "websocket"
    [] s = "WEBSOCKET" -> "websocket"
    [] s = "Bearer" -> "bearer"
    [] OTHER -> s

\* toLowerCase of a header value, atom by atom
ValueToLowerCase(v) == [i \in DOMAIN v |-> toLowerCase(v[i])]

\* the lower-case header names of the model in byte order (Array.prototype.sort)
SortedNames ==
  <<"accept", "authorization", "location", "set-cookie", "upgrade", "vary",
    "x-forwarded-host", "x-relay-error", "x-request-id">>

\* String.prototype.split(' '): the pieces between the spaces, each a
\* (possibly empty) sequence of atoms
RECURSIVE SplitOnSpace(_, _)
SplitOnSpace(v, piece) ==
  IF v = <<>> THEN <<piece>>
  ELSE IF Head(v) = " " THEN <<piece>> \o SplitOnSpace(Tail(v), <<>>)
  ELSE SplitOnSpace(Tail(v), Append(piece, Head(v)))

split(v) == SplitOnSpace(v, <<>>)

-----------------------------------------------------------------------------
(* Headers (the platform's class, as far as the relay uses it) *)

RECURSIVE CombineValues(_)
CombineValues(m) ==
  IF Len(m) = 1 THEN m[1].value
  ELSE m[1].value \o <<",", " ">> \o CombineValues(Tail(m))

\* Headers.prototype.get: case-insensitive, values combined with ", "
HeadersGet(h, name) ==
  LET m == SelectSeq(h, LAMBDA e : toLowerCase(e.name) = toLowerCase(name))
  IN IF m = <<>> THEN Null ELSE CombineValues(m)

RECURSIVE HeadersSetFrom(_, _, _, _)
HeadersSetFrom(h, name, value, added) ==
  IF h = <<>>
  THEN IF added THEN <<>> ELSE <<[name |-> name, value |-> value]>>
  ELSE IF toLowerCase(Head(h).name) = toLowerCase(name)
       THEN IF added
            THEN HeadersSetFrom(Tail(h), name, value, TRUE)
            ELSE <<[name |-> Head(h).name, value |-> value]>>
                 \o HeadersSetFrom(Tail(h), name, value, TRUE)
       ELSE <<Head(h)>> \o HeadersSetFrom(Tail(h), name, value, added)

\* Headers.prototype.set: overwrite the first entry of that name and drop the
\* others, or append
HeadersSet(h, name, value) == HeadersSetFrom(h, name, value, FALSE)

\* Headers.prototype.append
HeadersAppend(h, name, value) == Append(h, [name |-> name, value |-> value])

RECURSIVE EntriesFor(_, _)
EntriesFor(h, names) ==
  IF names = <<>> THEN <<>>
  ELSE LET n == Head(names)
           mine == SelectSeq(h, LAMBDA e : toLowerCase(e.name) = n)
       IN (IF n = "set-cookie"
           THEN [i \in DOMAIN mine |-> [name |-> n, value |-> mine[i].value]]
           ELSE <<[name |-> n, value |-> CombineValues(mine)]>>)
          \o EntriesFor(h, Tail(names))

\* Headers.prototype.entries / forEach: names lower-cased and sorted, the
\* values of one name combined, set-cookie alone kept as separate entries
HeadersEntries(h) ==
  EntriesFor(h, SelectSeq(SortedNames,
                 LAMBDA n : \E i \in DOMAIN h : toLowerCase(h[i].name) = n))

\* Object.fromEntries: a later entry of the same key wins
ObjectFromEntries(es) ==
  [k \in {es[i].name : i \in DOMAIN es} |->
     LET last == CHOOSE i \in DOMAIN es :
                   /\ es[i].name = k
                   /\ \A j \in DOMAIN es : es[j].name = k => j <= i
     IN es[last].value]

-----------------------------------------------------------------------------
(* URL (the platform's class, as far as patchedReq uses it) *)

\* the default port of a special scheme
DefaultPort(protocol) ==
  CASE protocol = "http:" -> "80"
    [] protocol = "https:" -> "443"
    [] protocol = "ws:" -> "80"
    [] protocol = "wss:" -> "443"
    [] OTHER -> ""

\* the port state of the URL parser: a port equal to the default port of the
\* URL's current scheme is stored as no port
ParsePort(port, protocol) == IF port = DefaultPort(protocol) THEN "" ELSE port

\* new URL(text), text given by its written components
NewURL(w) ==
  [protocol |-> w.protocol, hostname |-> w.hostname,
   port |-> ParsePort(w.port, w.protocol),
   pathname |-> w.pathname, search |-> w.search]

\* the host getter: hostname, and ":port" when there is an explicit port
URLHost(u) == IF u.port = "" THEN <<u.hostname>> ELSE <<u.hostname, ":", u.port>>

\* the host setter: sets the hostname, and the port only when the value has one
SetHost(u, host) ==
  IF Len(host) = 3
  THEN [u EXCEPT !.hostname = host[1], !.port = ParsePort(host[3], u.protocol)]
  ELSE [u EXCEPT !.hostname = host[1]]

\* the port setter: "" removes the port
SetPort(u, port) ==
  IF port = "" THEN [u EXCEPT !.port = ""]
  ELSE [u EXCEPT !.port = ParsePort(port, u.protocol)]

\* the protocol setter (between special schemes): sets the scheme, then drops
\* the port if it is the new scheme's default
SetProtocol(u, protocol) ==
  [u EXCEPT !.protocol = protocol,
            !.port = IF u.port = DefaultPort(protocol) THEN "" ELSE u.port]

\* protocol.replace('http', 'ws')
ReplaceHttpWithWs(protocol) ==
  CASE protocol = "http:" -> "ws:"
    [] protocol = "https:" -> "wss:"
    [] OTHER -> protocol

-----------------------------------------------------------------------------
(* Failures *)

X_FORWARDED_HOST == "x-forwarded-host"

Unauthorized == 401
MethodNotAllowed == 405
InternalServerError == 500

NoFailure == [name |-> "none", status |-> 0, message |-> ""]

\* ctx.throw(status, message): an HTTP error carrying its status
HttpError(status, message) ==
  [name |-> "HttpError", status |-> status, message |-> message]

\* an error without a status property (status 0 stands for undefined)
PlainError(name, message) == [name |-> name, status |-> 0, message |-> message]

-----------------------------------------------------------------------------
(* Credential check *)

\* getAuthToken: the token, or the failure it throws
getAuthToken(req) ==
  LET authHeader == HeadersGet(req.headers, "authorization")
      parts == split(authHeader)
      bearer == parts[1]
      tok == IF Len(parts) >= 2 THEN parts[2] ELSE Undefined
  IN IF Falsy(authHeader)
     THEN [threw |-> TRUE, value |-> Undefined,
           err |-> HttpError(Unauthorized, "Missing authorization header")]
     ELSE IF bearer # <<"Bearer">>
     THEN [threw |-> TRUE, value |-> Undefined,
           err |-> HttpError(Unauthorized, "Auth header is not 'Bearer {token}'")]
     ELSE [threw |-> FALSE, value |-> tok, err |-> NoFailure]

\* who signed a token atom ("none": not a JWT at all), and whether it expired
JwtSigner(a) ==
  CASE a = "jwt.s1" -> "s1"
    [] a = "jwt.s1.expired" -> "s1"
    [] a = "jwt.s2" -> "s2"
    [] OTHER -> "none"

JwtExpired(a) == a = "jwt.s1.expired"

\* jose.jwtVerify(jwt, key): "ok", or the code of the error it throws
jwtVerify(jwt, key) ==
  IF jwt = Undefined \/ Len(jwt) # 1 THEN "ERR_JWS_INVALID"
  ELSE IF JwtSigner(jwt[1]) = "none" THEN "ERR_JWS_INVALID"
  ELSE IF JwtSigner(jwt[1]) # key THEN "ERR_JWS_SIGNATURE_VERIFICATION_FAILED"
  ELSE IF JwtExpired(jwt[1]) THEN "ERR_JWT_EXPIRED"
  ELSE "ok"

\* a verifier that lets errors other than a bad signature propagate
verifyJWT_rethrows(jwt) ==
  LET r == jwtVerify(jwt, JWT_SECRET)
  IN IF r \in {"ok", "ERR_JWS_SIGNATURE_VERIFICATION_FAILED"}
     THEN [threw |-> FALSE, value |-> r = "ok", err |-> NoFailure]
     ELSE [threw |-> TRUE, value |-> FALSE, err |-> PlainError(r, r)]

\* verifyJWT: true when jwtVerify returns, false when it throws
verifyJWT(jwt) ==
  [threw |-> FALSE, value |-> jwtVerify(jwt, JWT_SECRET) = "ok", err |-> NoFailure]

-----------------------------------------------------------------------------
(* Rewriting and sanitizing *)

headerDenyList == {"set-cookie"}

RECURSIVE SanitizeInto(_, _, _)
SanitizeInto(entries, deny, sanitizedHeaders) ==
  IF entries = <<>> THEN sanitizedHeaders
  ELSE LET e == Head(entries)
       IN SanitizeInto(Tail(entries), deny,
            IF toLowerCase(e.name) \notin deny
            THEN HeadersSet(sanitizedHeaders, e.name, e.value)
            ELSE sanitizedHeaders)

\* a sanitizer whose deny list names the request header instead
sanitizeHeaders_cookie(headers) ==
  SanitizeInto(HeadersEntries(headers), {"cookie"}, <<>>)

\* a sanitizer that stops looking after the first denied entry it removed
sanitizeHeaders_firstOnly(headers) ==
  LET es == HeadersEntries(headers)
      denied == {i \in DOMAIN es : toLowerCase(es[i].name) \in headerDenyList}
      first == CHOOSE i \in denied : \A j \in denied : i <= j
  IN IF denied = {} THEN SanitizeInto(es, {}, <<>>)
     ELSE SanitizeInto([i \in 1..(Len(es) - 1) |->
                          IF i < first THEN es[i] ELSE es[i + 1]], {}, <<>>)

\* a sanitizer that walks the header list as received instead of the
\* iteration of the Headers object
sanitizeHeaders_rawList(headers) == SanitizeInto(headers, headerDenyList, <<>>)

\* sanitizeHeaders: a new Headers with every entry of the iteration set,
\* except the denied names
sanitizeHeaders(headers) ==
  SanitizeInto(HeadersEntries(headers), headerDenyList, <<>>)

\* the object literal { ...obj, [key]: value }
ObjectWith(obj, key, value) ==
  [k \in DOMAIN obj \cup {key} |-> IF k = key THEN value ELSE obj[k]]

\* a rewrite that starts from the origin URL and so loses path and query
patchedReq_fromOrigin(req) ==
  LET url == NewURL(DENO_ORIGIN)
  IN [url |-> url,
      init |-> [headers |-> ObjectWith(ObjectFromEntries(HeadersEntries(req.headers)),
                                       X_FORWARDED_HOST, <<url.hostname>>),
                body |-> IF req.hasBody THEN req.body ELSE Undefined,
                method |-> req.method]]

\* patchedReq: the request's own URL object patched in place (host, then
\* port, then protocol), and the init of the outbound request
patchedReq(req) ==
  LET denoOrigin == NewURL(DENO_ORIGIN)
      url1 == SetHost(req.url, URLHost(denoOrigin))
      url2 == SetPort(url1, denoOrigin.port)
      url == SetProtocol(url2, denoOrigin.protocol)
      xHost == url.hostname
  IN [url |-> url,
      init |-> [headers |-> ObjectWith(ObjectFromEntries(HeadersEntries(req.headers)),
                                       X_FORWARDED_HOST, <<xHost>>),
                body |-> IF req.hasBody THEN req.body ELSE Undefined,
                method |-> req.method]]

\* isWebsocketUpgrade
isWebsocketUpgrade(req) ==
  /\ req.method = "GET"
  /\ LET upgrade == HeadersGet(req.headers, "upgrade")
     IN upgrade # Null /\ ValueToLowerCase(upgrade) = <<"websocket">>

-----------------------------------------------------------------------------
(* The inputs that are enumerated *)

SeqsUpTo(S, n) == UNION {[1..k -> S] : k \in 0..n}

Secrets == {"s1", "s2"}

\* DENO_ORIGIN as written in the environment
Origins ==
  [protocol : {"http:", "https:"}, hostname : {"origin"},
   port : {"", "80", "443", "9000"}, pathname : {"/"}, search : {""}]

Methods == {"GET", "POST", "OPTIONS", "PUT"}

UpgradeValues == {Null, <<"websocket">>, <<"WebSocket">>}

AuthValues ==
  {Null, <<>>,
   <<"Bearer", " ", "jwt.s1">>, <<"Bearer", " ", "jwt.s2">>,
   <<"Bearer", " ", "jwt.s1.expired">>, <<"Bearer", " ", "garbage">>,
   <<"Bearer">>, <<"Basic", " ", "jwt.s1">>, <<"bearer", " ", "jwt.s1">>,
   <<"jwt.s1">>, <<"Bearer", " ", " ", "jwt.s1">>,
   <<"Bearer", " ", "jwt.s1", " ", "extra">>}

\* the URL of the inbound request as written on the wire (the relay listens
\* without TLS, so the scheme is http; the rest comes from the Host header
\* and the request target)
InboundURLs ==
  [protocol : {"http:"}, hostname : {"relay"}, port : {"", "8081", "443"},
   pathname : {"/", "/items"}, search : {"", "?x=1"}]

OptionalHeader(name, value) ==
  IF value = Null THEN <<>> ELSE <<[name |-> name, value |-> value]>>

\* the request oak hands to the middleware; `upgradable` says whether
\* ctx.upgrade() accepts it (a complete WebSocket handshake)
MakeRequest(method, written, auth, upgrade, xfh, upgradable) ==
  [method |-> method,
   url |-> NewURL(written),
   headers |-> <<[name |-> "Accept", value |-> <<"*/*">>]>>
               \o OptionalHeader("Authorization", auth)
               \o OptionalHeader("Upgrade", upgrade)
               \o OptionalHeader("X-Forwarded-Host", xfh),
   hasBody |-> method \in {"POST", "PUT"},
   body |-> IF method \in {"POST", "PUT"} THEN <<"payload">> ELSE Undefined,
   upgradable |-> upgradable]

ScenarioURL ==
  [protocol |-> "http:", hostname |-> "relay", port |-> "8081",
   pathname |-> "/items", search |-> "?x=1"]

\* every method, upgrade header and authorization header, on one URL
GateRequests ==
  {MakeRequest(m, ScenarioURL, a, u, Null, g) :
     m \in Methods, a \in AuthValues, u \in UpgradeValues, g \in BOOLEAN}

\* every URL, with and without a forwarded-host header of the caller's, for
\* the three kinds of request that are relayed
RewriteRequests ==
  {MakeRequest(k[1], w, <<"Bearer", " ", "jwt.s1">>, k[2], x, k[1] = "GET") :
     k \in {<<"POST", Null>>, <<"OPTIONS", Null>>, <<"GET", <<"websocket">>>>},
     w \in InboundURLs, x \in {Null, <<"public.example">>}}

Requests ==
  {r \in GateRequests \cup RewriteRequests :
     r.upgradable => (r.method = "GET" /\ HeadersGet(r.headers, "upgrade") # Null)}

HeaderPool ==
  {[name |-> "Set-Cookie", value |-> <<"a=1">>],
   [name |-> "set-cookie", value |-> <<"b=2">>],
   [name |-> "Vary", value |-> <<"accept">>],
   [name |-> "vary", value |-> <<"origin">>],
   [name |-> "X-Request-Id", value |-> <<"r1">>]}

OriginStatuses == {200, 301, 401, 404, 500}

\* the statuses fetch treats as a redirect when a Location header comes along
RedirectStatuses == {301, 302, 303, 307, 308}

\* the origin's answers that point somewhere else
RedirectResponses ==
  {[status |-> st, body |-> <<"moved">>, type |-> "default",
    headers |-> <<[name |-> "Location", value |-> <<"/login">>]>>] :
     st \in {302, 303}}

\* what the origin can answer the forwarded request with: every status, every
\* header list, and the redirects
OriginResponses ==
  {[status |-> st, body |-> <<"origin-body">>, type |-> "default",
    headers |-> <<[name |-> "Set-Cookie", value |-> <<"a=1">>]>>] :
     st \in OriginStatuses}
  \cup
  {[status |-> 200, body |-> <<"origin-body">>, type |-> "default",
    headers |-> h] : h \in SeqsUpTo(HeaderPool, MaxHdrs)}
  \cup RedirectResponses

\* what the target of a redirect can answer with
TargetResponses ==
  {[status |-> st, body |-> <<"target-body">>, type |-> "default",
    headers |-> <<[name |-> "Vary", value |-> <<"accept">>]>>] :
     st \in {200, 404}}

\* the configuration and the requests of the WebSocket sessions that are
\* followed frame by frame
SessionOrigin ==
  [protocol |-> "http:", hostname |-> "origin", port |-> "9000",
   pathname |-> "/", search |-> ""]

SessionRequests ==
  {MakeRequest("GET", ScenarioURL, a, <<"websocket">>, Null, g) :
     a \in {Null, <<"Bearer", " ", "jwt.s1">>}, g \in BOOLEAN}

\* the payloads of the frames
Payloads == {"a", "b"}

-----------------------------------------------------------------------------
(* The middlewares *)

NoRequest == [method |-> "none"]
\* a socket that does not exist yet; `failed` records that a socket closed
\* while it was still connecting, `closeFrame` that the Close frame of its
\* peer has arrived
NoSocket == [state |-> "NONE", onopen |-> FALSE, onmessage |-> FALSE,
             onclose |-> FALSE, failed |-> FALSE, closeFrame |-> FALSE]

\* what one synchronous run of the inner middleware leaves behind
Outcome(req) ==
  [pc |-> "done", request |-> req, failure |-> NoFailure, token |-> Undefined,
   extracted |-> FALSE, sent |-> <<>>, upstream |-> NoSocket,
   downstream |-> NoSocket]

\* relayTo up to its await: the request is rewritten and fetch is called
relayTo(req) ==
  LET p == patchedReq(req)
  IN [Outcome([req EXCEPT !.url = p.url]) EXCEPT
        !.pc = "fetch",
        !.sent = <<[kind |-> "fetch", url |-> p.url, method |-> p.init.method,
                    headers |-> p.init.headers, body |-> p.init.body]>>]

\* relayWebsocket up to its await: only the URL of patchedReq is used; the
\* origin socket is created, then the caller is upgraded, then the handlers
\* are bound
relayWebsocket(req) ==
  LET p == patchedReq(req)
      url == SetProtocol(p.url, ReplaceHttpWithWs(p.url.protocol))
      ws == [kind |-> "websocket", url |-> url, method |-> "GET",
             headers |-> <<>>, body |-> Undefined]
      created == [NoSocket EXCEPT !.state = "CONNECTING"]
  IN IF req.upgradable
     THEN [Outcome([req EXCEPT !.url = url]) EXCEPT
             !.pc = "upgrade",
             !.sent = <<ws>>,
             !.upstream = [created EXCEPT !.onopen = TRUE, !.onclose = TRUE],
             !.downstream = [created EXCEPT !.onclose = TRUE]]
     ELSE [Outcome([req EXCEPT !.url = url]) EXCEPT
             !.sent = <<ws>>,
             !.upstream = created,
             !.failure = PlainError("TypeError", "upgrade not supported")]

\* the method gate lets GET through without asking for an upgrade
MethodAllowed_anyGet(req) == req.method \in {"POST", "OPTIONS", "GET"}

\* the condition of the method gate
MethodAllowed(req) ==
  req.method = "POST" \/ req.method = "OPTIONS" \/ isWebsocketUpgrade(req)

\* the auth gate without the exemption of OPTIONS
AuthRequired_noExemption(req) == VERIFY_JWT

\* the condition of the auth gate
AuthRequired(req) == req.method # "OPTIONS" /\ VERIFY_JWT

\* the relay branch of the inner middleware, up to its await
Relay(req) == IF isWebsocketUpgrade(req) THEN relayWebsocket(req) ELSE relayTo(req)

\* the inner middleware from its start to its first await or throw
InnerStart(req) ==
  IF ~MethodAllowed(req)
  THEN [Outcome(req) EXCEPT
          !.failure = HttpError(MethodNotAllowed,
                                "Only POST and OPTIONS requests are supported")]
  ELSE IF AuthRequired(req)
  THEN LET t == getAuthToken(req)
       IN IF t.threw
          THEN [Outcome(req) EXCEPT !.failure = t.err, !.extracted = TRUE]
          ELSE [Outcome(req) EXCEPT !.pc = "verify", !.token = t.value,
                                    !.extracted = TRUE]
  ELSE Relay(req)

\* an inner middleware that starts the relay before it looks at the verdict
InnerResume_relayFirst(req, jwt) ==
  LET v == verifyJWT(jwt)
  IN IF v.threw THEN [Outcome(req) EXCEPT !.failure = v.err]
     ELSE IF ~v.value
     THEN [Relay(req) EXCEPT !.pc = "done",
                             !.failure = HttpError(Unauthorized, "Invalid JWT")]
     ELSE Relay(req)

\* the inner middleware from the completion of verifyJWT to its next await
InnerResume(req, jwt) ==
  LET v == verifyJWT(jwt)
  IN IF v.threw THEN [Outcome(req) EXCEPT !.failure = v.err]
     ELSE IF ~v.value
     THEN [Outcome(req) EXCEPT !.failure = HttpError(Unauthorized, "Invalid JWT")]
     ELSE Relay(req)

\* the catch of the outer middleware
ErrorBoundary(resp, err) ==
  [resp EXCEPT !.body = <<err.message>>,
               !.headers = HeadersAppend(@, "x-relay-error", <<"true">>),
               !.status = IF err.status # 0 THEN err.status ELSE InternalServerError]

\* the outer middleware around one run of the inner one: its outcome is
\* installed, and a failure is caught and turned into the response
OuterMiddleware(o) ==
  /\ request' = o.request
  /\ outbound' = outbound \o o.sent
  /\ upstream' = o.upstream
  /\ downstream' = o.downstream
  /\ IF o.failure # NoFailure
     THEN /\ pc' = "done"
          /\ failure' = o.failure
          /\ caught' = caught + 1
          /\ response' = ErrorBoundary(response, o.failure)
     ELSE /\ pc' = o.pc
          /\ UNCHANGED <<failure, caught, response>>

NoResponse == [status |-> 0, body |-> Undefined, headers |-> <<>>, type |-> ""]

\* the connections that are handled concurrently
Conns == {"c1", "c2"}

\* the context of a connection before its request has arrived: ctx.request,
\* ctx.response, the locals of the middlewares and the socket pair
Fresh ==
  [pc |-> "idle", inbound |-> NoRequest, request |-> NoRequest,
   response |-> NoResponse, token |-> Undefined, failure |-> NoFailure,
   caught |-> 0, authLog |-> [extracted |-> FALSE, verified |-> FALSE],
   outbound |-> <<>>, fetched |-> NoResponse, replied |-> NoResponse,
   upstream |-> NoSocket, downstream |-> NoSocket, closeEvents |-> 0,
   callerSent |-> <<>>, originSent |-> <<>>, toOrigin |-> <<>>,
   toCaller |-> <<>>, uncaught |-> NoFailure]

\* the process runs: no exception has left a callback uncaught (an uncaught
\* exception ends the process, and with it every handler)
Alive == uncaught = NoFailure

\* one connection before its request has arrived
Start ==
  /\ pc = "idle"
  /\ inbound = NoRequest
  /\ request = NoRequest
  /\ response = NoResponse
  /\ token = Undefined
  /\ failure = NoFailure
  /\ caught = 0
  /\ authLog = [extracted |-> FALSE, verified |-> FALSE]
  /\ outbound = <<>>
  /\ fetched = NoResponse
  /\ replied = NoResponse
  /\ upstream = NoSocket
  /\ downstream = NoSocket
  /\ closeEvents = 0
  /\ callerSent = <<>>
  /\ originSent = <<>>
  /\ toOrigin = <<>>
  /\ toCaller = <<>>
  /\ uncaught = NoFailure
  /\ conns = [k \in Conns |-> Fresh]
  /\ alone = [k \in Conns |-> Fresh]

Init ==
  /\ JWT_SECRET \in Secrets
  /\ DENO_ORIGIN \in Origins
  /\ VERIFY_JWT \in BOOLEAN
  /\ Start

\* a request arrives and the middlewares run to the first await
Accept(r) ==
  /\ Alive
  /\ pc = "idle"
  /\ inbound' = r
  /\ LET o == InnerStart(r)
     IN /\ OuterMiddleware(o)
        /\ token' = o.token
        /\ authLog' = [authLog EXCEPT !.extracted = o.extracted]
  /\ UNCHANGED <<config, fetched, replied, closeEvents, frames, crowd, uncaught>>

\* verifyJWT completes and the inner middleware goes on
VerifyDone ==
  /\ Alive
  /\ pc = "verify"
  /\ OuterMiddleware(InnerResume(request, token))
  /\ authLog' = [authLog EXCEPT !.verified = TRUE]
  /\ UNCHANGED <<config, inbound, token, fetched, replied, closeEvents, frames, crowd, uncaught>>

\* fetch is called without a redirect mode, so it follows a redirect: a
\* response with a redirect status and a Location header
IsRedirect(reply) ==
  /\ reply.status \in RedirectStatuses
  /\ HeadersGet(reply.headers, "location") # Null

\* a redirect is followed unless the body of the request, a stream, would have
\* to be sent again (every redirect status but 303 keeps the body)
CanFollow(reply, sent) == reply.status = 303 \/ sent.body = Undefined

\* fetch(url, init) for a request `sent` that the origin answers with `reply`:
\* it resolves with the reply, or with the response of the target the origin
\* redirected to, or it rejects
fetch(sent, reply, target) ==
  IF ~IsRedirect(reply) THEN [ok |-> TRUE, resp |-> reply]
  ELSE IF CanFollow(reply, sent) THEN [ok |-> TRUE, resp |-> target]
  ELSE [ok |-> FALSE, resp |-> reply]

\* the relay branch after its await: the response fetch resolved with is
\* copied into ctx.response
CopyResponse(res, resp) ==
  [res EXCEPT !.body = resp.body,
              !.status = resp.status,
              !.headers = sanitizeHeaders(resp.headers),
              !.type = resp.type]

\* fetch resolves, and the inner middleware copies the response
FetchResolve(reply, target) ==
  /\ Alive
  /\ pc = "fetch"
  /\ LET f == fetch(outbound[Len(outbound)], reply, target)
     IN /\ f.ok
        /\ response' = CopyResponse(response, f.resp)
        /\ fetched' = f.resp
  /\ replied' = reply
  /\ pc' = "done"
  /\ UNCHANGED <<config, inbound, request, token, failure, caught, authLog,
                 outbound, upstream, downstream, closeEvents, frames, crowd, uncaught>>

\* fetch rejects (the origin cannot be reached): a TypeError without status
FetchReject ==
  /\ Alive
  /\ pc = "fetch"
  /\ OuterMiddleware([Outcome(request) EXCEPT
                        !.failure = PlainError("TypeError", "error sending request")])
  /\ UNCHANGED <<config, inbound, token, authLog, fetched, replied, closeEvents,
                 frames, crowd, uncaught>>

\* fetch rejects because the origin redirected a request whose streamed body
\* cannot be sent again
FetchRedirectReject(reply) ==
  /\ Alive
  /\ pc = "fetch"
  /\ ~fetch(outbound[Len(outbound)], reply, reply).ok
  /\ OuterMiddleware([Outcome(request) EXCEPT
                        !.failure = PlainError("TypeError", "cannot redeliver body")])
  /\ replied' = reply
  /\ UNCHANGED <<config, inbound, token, authLog, fetched, closeEvents, frames, crowd, uncaught>>

\* WebSocket.prototype.close that leaves a connecting socket alone
Close_openOnly(sock) ==
  IF sock.state = "OPEN" THEN [sock EXCEPT !.state = "CLOSING"] ELSE sock

\* WebSocket.prototype.close
Close(sock) ==
  IF sock.state \in {"CONNECTING", "OPEN"}
  THEN [sock EXCEPT !.state = "CLOSING"] ELSE sock

\* an onclose handler of the origin socket that closes its own socket, which
\* has just closed, instead of the caller's
upstreamOnclose_closesItself(down) == down

\* upstream.onclose = () => downstream.close()
upstreamOnclose(down) == Close(down)

\* downstream.onclose = () => upstream.close()
downstreamOnclose(up) == Close(up)

\* a send that does not look at the state of the socket
Send_anyState(sock, sent, data, strict) ==
  [sent |-> Append(sent, data), err |-> NoFailure]

\* WebSocket.prototype.send: the frame leaves on an open socket; on a
\* connecting socket send throws InvalidStateError; on a closing or closed
\* socket it throws too (strict: the platform of the Dockerfile) or discards
\* the frame (the WebSocket standard)
Send(sock, sent, data, strict) ==
  IF sock.state = "OPEN" THEN [sent |-> Append(sent, data), err |-> NoFailure]
  ELSE IF sock.state = "CONNECTING" \/ strict
  THEN [sent |-> sent,
        err |-> PlainError("InvalidStateError", "readyState not OPEN")]
  ELSE [sent |-> sent, err |-> NoFailure]

\* a message event: the handler, if one is bound, sends the frame on the
\* other socket; nothing catches what the handler throws
OnMessage(bound, sock, sent, data, strict) ==
  IF bound THEN Send(sock, sent, data, strict)
  ELSE [sent |-> sent, err |-> NoFailure]

\* the origin socket opens: upstream.onopen binds both message handlers and
\* resolves the promise relayWebsocket awaits
UpstreamOpen ==
  /\ Alive
  /\ upstream.state = "CONNECTING"
  /\ IF upstream.onopen
     THEN /\ upstream' = [upstream EXCEPT !.state = "OPEN", !.onmessage = TRUE]
          /\ downstream' = [downstream EXCEPT !.onmessage = TRUE]
          /\ pc' = IF pc = "upgrade" THEN "done" ELSE pc
     ELSE /\ upstream' = [upstream EXCEPT !.state = "OPEN"]
          /\ UNCHANGED <<downstream, pc>>
  /\ UNCHANGED <<config, inbound, request, response, token, failure, caught,
                 authLog, outbound, fetched, replied, closeEvents, frames, crowd, uncaught>>

\* the caller's upgrade completes
DownstreamOpen ==
  /\ Alive
  /\ downstream.state = "CONNECTING"
  /\ downstream' = [downstream EXCEPT !.state = "OPEN"]
  /\ UNCHANGED <<config, pc, inbound, request, response, token, failure, caught,
                 authLog, outbound, fetched, replied, upstream, closeEvents,
                 frames, crowd, uncaught>>

\* the origin starts the closing handshake: its Close frame arrives on the
\* open origin socket, which is CLOSING from then on; the connection stays,
\* no close event is dispatched yet and no handler of the relay runs
UpstreamCloseFrame ==
  /\ Alive
  /\ upstream.state = "OPEN"
  /\ upstream' = [upstream EXCEPT !.state = "CLOSING", !.closeFrame = TRUE]
  /\ UNCHANGED <<config, pc, inbound, request, response, token, failure, caught,
                 authLog, outbound, fetched, replied, downstream, closeEvents,
                 frames, crowd, uncaught>>

\* the caller starts the closing handshake on its open socket
DownstreamCloseFrame ==
  /\ Alive
  /\ downstream.state = "OPEN"
  /\ downstream' = [downstream EXCEPT !.state = "CLOSING", !.closeFrame = TRUE]
  /\ UNCHANGED <<config, pc, inbound, request, response, token, failure, caught,
                 authLog, outbound, fetched, replied, upstream, closeEvents,
                 frames, crowd, uncaught>>

\* the close event of the origin socket, dispatched when its connection ends
\* (the connection failed or was lost, or a closing handshake started by
\* either side completed): upstream.onclose closes the caller's
UpstreamClose ==
  /\ Alive
  /\ upstream.state \in {"CONNECTING", "OPEN", "CLOSING"}
  /\ upstream' = [upstream EXCEPT !.state = "CLOSED",
                                  !.failed = upstream.state = "CONNECTING"]
  /\ downstream' = IF upstream.onclose THEN upstreamOnclose(downstream)
                  ELSE downstream
  /\ closeEvents' = closeEvents + 1
  /\ UNCHANGED <<config, pc, inbound, request, response, token, failure, caught,
                 authLog, outbound, fetched, replied, frames, crowd, uncaught>>

\* the close event of the caller's socket, dispatched when its connection
\* ends: downstream.onclose closes the origin's
DownstreamClose ==
  /\ Alive
  /\ downstream.state \in {"CONNECTING", "OPEN", "CLOSING"}
  /\ downstream' = [downstream EXCEPT !.state = "CLOSED",
                                      !.failed = downstream.state = "CONNECTING"]
  /\ upstream' = IF downstream.onclose THEN downstreamOnclose(upstream)
                ELSE upstream
  /\ closeEvents' = closeEvents + 1
  /\ UNCHANGED <<config, pc, inbound, request, response, token, failure, caught,
                 authLog, outbound, fetched, replied, frames, crowd, uncaught>>

\* a frame of the caller arrives at the caller's socket (message events are
\* dispatched until the socket is closed, and a peer sends no frame after its
\* Close frame): downstream.onmessage, once it is bound, hands it to
\* upstream.send
CallerSend(data, strict) ==
  /\ Alive
  /\ downstream.state \in {"OPEN", "CLOSING"}
  /\ ~downstream.closeFrame
  /\ Len(callerSent) < MaxFrames
  /\ callerSent' = Append(callerSent, data)
  /\ LET m == OnMessage(downstream.onmessage, upstream, toOrigin, data, strict)
     IN /\ toOrigin' = m.sent
        /\ uncaught' = m.err
  /\ UNCHANGED <<config, pc, inbound, request, response, token, failure, caught,
                 authLog, outbound, fetched, replied, upstream, downstream,
                 closeEvents, originSent, toCaller, conns, alone>>

\* a frame of the origin arrives at the origin socket: upstream.onmessage,
\* once it is bound, hands it to downstream.send
OriginSend(data, strict) ==
  /\ Alive
  /\ upstream.state \in {"OPEN", "CLOSING"}
  /\ ~upstream.closeFrame
  /\ Len(originSent) < MaxFrames
  /\ originSent' = Append(originSent, data)
  /\ LET m == OnMessage(upstream.onmessage, downstream, toCaller, data, strict)
     IN /\ toCaller' = m.sent
        /\ uncaught' = m.err
  /\ UNCHANGED <<config, pc, inbound, request, response, token, failure, caught,
                 authLog, outbound, fetched, replied, upstream, downstream,
                 closeEvents, callerSent, toOrigin, conns, alone>>

\* the connection from the arrival of its request to its response, with the
\* opening and closing of the sockets of a WebSocket session
Next ==
  \/ \E r \in Requests : Accept(r)
  \/ VerifyDone
  \/ \E reply \in OriginResponses, target \in TargetResponses :
       FetchResolve(reply, target)
  \/ FetchReject
  \/ \E reply \in OriginResponses : FetchRedirectReject(reply)
  \/ UpstreamOpen
  \/ DownstreamOpen
  \/ UpstreamCloseFrame
  \/ DownstreamCloseFrame
  \/ UpstreamClose
  \/ DownstreamClose

Spec == Init /\ [][Next]_vars

\* one WebSocket session under one configuration, with the frames the two
\* sides send
SessionInit ==
  /\ JWT_SECRET = "s1"
  /\ DENO_ORIGIN = SessionOrigin
  /\ VERIFY_JWT \in BOOLEAN
  /\ Start

SessionNext ==
  \/ \E r \in SessionRequests : Accept(r)
  \/ VerifyDone
  \/ UpstreamOpen
  \/ DownstreamOpen
  \/ UpstreamCloseFrame
  \/ DownstreamCloseFrame
  \/ UpstreamClose
  \/ DownstreamClose
  \/ \E data \in Payloads, strict \in BOOLEAN : CallerSend(data, strict)
  \/ \E data \in Payloads, strict \in BOOLEAN : OriginSend(data, strict)

SessionSpec == SessionInit /\ [][SessionNext]_vars

-----------------------------------------------------------------------------
(* Several connections at once.  Every handler works on the context it is   *)
(* given and on the sockets of its own closure; the handlers of different   *)
(* connections interleave at their awaits and events.                       *)

\* the outer middleware around one run of the inner one, on the context of a
\* connection
Settle(c, o) ==
  LET thrown == o.failure # NoFailure
  IN [c EXCEPT !.request = o.request,
               !.outbound = @ \o o.sent,
               !.upstream = o.upstream,
               !.downstream = o.downstream,
               !.pc = IF thrown THEN "done" ELSE o.pc,
               !.failure = IF thrown THEN o.failure ELSE @,
               !.caught = IF thrown THEN @ + 1 ELSE @,
               !.response = IF thrown THEN ErrorBoundary(@, o.failure) ELSE @]

\* whether the event can happen to a connection in this state
Ready(c, ev) ==
  CASE ev.kind = "request" -> c.pc = "idle"
    [] ev.kind = "verified" -> c.pc = "verify"
    [] ev.kind = "response" ->
         /\ c.pc = "fetch"
         /\ fetch(c.outbound[Len(c.outbound)], ev.reply, ev.target).ok
    [] ev.kind = "unreachable" -> c.pc = "fetch"
    [] ev.kind = "upstream open" -> c.upstream.state = "CONNECTING"
    [] ev.kind = "downstream open" -> c.downstream.state = "CONNECTING"
    [] ev.kind = "upstream close frame" -> c.upstream.state = "OPEN"
    [] ev.kind = "downstream close frame" -> c.downstream.state = "OPEN"
    [] ev.kind = "upstream close" ->
         c.upstream.state \in {"CONNECTING", "OPEN", "CLOSING"}
    [] ev.kind = "downstream close" ->
         c.downstream.state \in {"CONNECTING", "OPEN", "CLOSING"}
    [] ev.kind = "caller frame" ->
         /\ c.downstream.state \in {"OPEN", "CLOSING"}
         /\ ~c.downstream.closeFrame
         /\ Len(c.callerSent) < MaxConcFrames
    [] ev.kind = "origin frame" ->
         /\ c.upstream.state \in {"OPEN", "CLOSING"}
         /\ ~c.upstream.closeFrame
         /\ Len(c.originSent) < MaxConcFrames

\* the handler of the event, run on the context of a connection
Handle(c, ev) ==
  CASE ev.kind = "request" ->
         LET o == InnerStart(ev.request)
         IN [Settle([c EXCEPT !.inbound = ev.request], o) EXCEPT
               !.token = o.token, !.authLog.extracted = o.extracted]
    [] ev.kind = "verified" ->
         [Settle(c, InnerResume(c.request, c.token)) EXCEPT
            !.authLog.verified = TRUE]
    [] ev.kind = "response" ->
         LET f == fetch(c.outbound[Len(c.outbound)], ev.reply, ev.target)
         IN [c EXCEPT !.response = CopyResponse(@, f.resp),
                      !.fetched = f.resp,
                      !.replied = ev.reply,
                      !.pc = "done"]
    [] ev.kind = "unreachable" ->
         Settle(c, [Outcome(c.request) EXCEPT
                      !.failure = PlainError("TypeError", "error sending request")])
    [] ev.kind = "upstream open" ->
         IF c.upstream.onopen
         THEN [c EXCEPT !.upstream.state = "OPEN",
                        !.upstream.onmessage = TRUE,
                        !.downstream.onmessage = TRUE,
                        !.pc = IF @ = "upgrade" THEN "done" ELSE @]
         ELSE [c EXCEPT !.upstream.state = "OPEN"]
    [] ev.kind = "downstream open" -> [c EXCEPT !.downstream.state = "OPEN"]
    [] ev.kind = "upstream close frame" ->
         [c EXCEPT !.upstream.state = "CLOSING", !.upstream.closeFrame = TRUE]
    [] ev.kind = "downstream close frame" ->
         [c EXCEPT !.downstream.state = "CLOSING",
                   !.downstream.closeFrame = TRUE]
    [] ev.kind = "upstream close" ->
         [c EXCEPT !.upstream.state = "CLOSED",
                   !.upstream.failed = c.upstream.state = "CONNECTING",
                   !.downstream = IF c.upstream.onclose
                                  THEN upstreamOnclose(@) ELSE @,
                   !.closeEvents = @ + 1]
    [] ev.kind = "downstream close" ->
         [c EXCEPT !.downstream.state = "CLOSED",
                   !.downstream.failed = c.downstream.state = "CONNECTING",
                   !.upstream = IF c.downstream.onclose
                                THEN downstreamOnclose(@) ELSE @,
                   !.closeEvents = @ + 1]
    [] ev.kind = "caller frame" ->
         LET m == OnMessage(c.downstream.onmessage, c.upstream, c.toOrigin,
                            ev.data, ev.strict)
         IN [c EXCEPT !.callerSent = Append(@, ev.data),
                      !.toOrigin = m.sent,
                      !.uncaught = m.err]
    [] ev.kind = "origin frame" ->
         LET m == OnMessage(c.upstream.onmessage, c.downstream, c.toCaller,
                            ev.data, ev.strict)
         IN [c EXCEPT !.originSent = Append(@, ev.data),
                      !.toCaller = m.sent,
                      !.uncaught = m.err]

\* the context the handlers of connection k work on: oak hands every request
\* its own ctx, and the sockets are locals of that request's relayWebsocket
Slot(k) == k

\* the one process of all connections runs: no callback of any connection
\* has let an exception out
ProcessAlive == \A k \in Conns : conns[k].uncaught = NoFailure

\* an event of connection k is handled
Deliver(k, ev) ==
  /\ ProcessAlive
  /\ Ready(conns[Slot(k)], ev)
  /\ conns' = [conns EXCEPT ![Slot(k)] = Handle(@, ev)]
  /\ alone' = [alone EXCEPT ![k] = Handle(@, ev)]
  /\ UNCHANGED <<config, single>>

\* the requests of the concurrent connections: a POST, an upgrading GET on
\* another URL, and a POST with a token that does not verify
ConcRequests ==
  {MakeRequest("POST", ScenarioURL, <<"Bearer", " ", "jwt.s1">>, Null, Null, FALSE),
   MakeRequest("GET", [ScenarioURL EXCEPT !.pathname = "/", !.search = ""],
               <<"Bearer", " ", "jwt.s1">>, <<"websocket">>, Null, TRUE),
   MakeRequest("POST", ScenarioURL, <<"Bearer", " ", "garbage">>, Null, Null, FALSE)}

\* the payload of their frames
ConcPayloads == {"a"}

\* the origin's answers to them
ConcResponses ==
  {r \in OriginResponses :
     \/ r.status = 404
     \/ r.status = 303}

ConnAccept(k, r) == Deliver(k, [kind |-> "request", request |-> r])
ConnVerifyDone(k) == Deliver(k, [kind |-> "verified"])
ConnFetchResolve(k, reply, target) ==
  Deliver(k, [kind |-> "response", reply |-> reply, target |-> target])
ConnFetchReject(k) == Deliver(k, [kind |-> "unreachable"])
ConnUpstreamOpen(k) == Deliver(k, [kind |-> "upstream open"])
ConnDownstreamOpen(k) == Deliver(k, [kind |-> "downstream open"])
ConnUpstreamCloseFrame(k) == Deliver(k, [kind |-> "upstream close frame"])
ConnDownstreamCloseFrame(k) == Deliver(k, [kind |-> "downstream close frame"])
ConnUpstreamClose(k) == Deliver(k, [kind |-> "upstream close"])
ConnDownstreamClose(k) == Deliver(k, [kind |-> "downstream close"])
ConnCallerSend(k, data, strict) ==
  Deliver(k, [kind |-> "caller frame", data |-> data, strict |-> strict])
ConnOriginSend(k, data, strict) ==
  Deliver(k, [kind |-> "origin frame", data |-> data, strict |-> strict])

ConcInit ==
  /\ JWT_SECRET = "s1"
  /\ DENO_ORIGIN = SessionOrigin
  /\ VERIFY_JWT = TRUE
  /\ Start

ConcNext ==
  \E k \in Conns :
    \/ \E r \in ConcRequests : ConnAccept(k, r)
    \/ ConnVerifyDone(k)
    \/ \E reply \in ConcResponses, target \in TargetResponses :
         ConnFetchResolve(k, reply, target)
    \/ ConnFetchReject(k)
    \/ ConnUpstreamOpen(k)
    \/ ConnDownstreamOpen(k)
    \/ ConnUpstreamCloseFrame(k)
    \/ ConnDownstreamCloseFrame(k)
    \/ ConnUpstreamClose(k)
    \/ ConnDownstreamClose(k)
    \/ \E data \in ConcPayloads, strict \in BOOLEAN :
         ConnCallerSend(k, data, strict)
    \/ \E data \in ConcPayloads, strict \in BOOLEAN :
         ConnOriginSend(k, data, strict)

ConcSpec == ConcInit /\ [][ConcNext]_vars

-----------------------------------------------------------------------------
(* Properties *)

Received == inbound # NoRequest

\* the authorization header of the request as received (Null when absent)
InboundAuth == HeadersGet(inbound.headers, "authorization")

\* the request as received is a GET asking for a WebSocket upgrade
InboundIsUpgrade ==
  /\ inbound.method = "GET"
  /\ \E i \in DOMAIN inbound.headers :
       /\ toLowerCase(inbound.headers[i].name) = "upgrade"
       /\ inbound.headers[i].value \in {<<"websocket">>, <<"WebSocket">>}

\* a header value of the form Bearer, one space, one token, nothing else
IsBearerToken(v) ==
  /\ Len(v) = 3
  /\ v[1] = "Bearer"
  /\ v[2] = " "
  /\ v[3] # " "

\* C1: a request whose method is not POST, not OPTIONS and not a GET asking
\* for a WebSocket upgrade is answered with 405, whatever its authorization
\* header and whether or not enforcement is on; no token is looked at and
\* nothing is sent to the origin.
C1_MethodGate ==
  (Received /\ inbound.method \notin {"POST", "OPTIONS"} /\ ~InboundIsUpgrade)
    => /\ pc = "done"
       /\ response.status = MethodNotAllowed
       /\ ~authLog.extracted
       /\ ~authLog.verified
       /\ outbound = <<>>

C1_Witness ==
  /\ Received
  /\ VERIFY_JWT
  /\ inbound.method = "GET"
  /\ ~InboundIsUpgrade
  /\ InboundAuth = Null
  /\ response.status = MethodNotAllowed

\* the request carries no usable credential: no authorization header, a token
\* that jose rejects, or no token at all after the word Bearer
C2_BadCredential ==
  \/ InboundAuth = Null
  \/ InboundAuth = <<"Bearer">>
  \/ /\ IsBearerToken(InboundAuth)
     /\ jwtVerify(<<InboundAuth[3]>>, JWT_SECRET) # "ok"

\* C2: with enforcement on, a POST or an upgrading GET without authorization
\* header, or with a token that fails verification for any reason, is answered
\* with 401 (never 500) and is not forwarded.
C2_Unauthorized ==
  (/\ Received
   /\ VERIFY_JWT
   /\ (inbound.method = "POST" \/ InboundIsUpgrade)
   /\ C2_BadCredential)
    => /\ pc \in {"verify", "done"}
       /\ pc = "done" => response.status = Unauthorized
       /\ outbound = <<>>

C2_Witness ==
  /\ VERIFY_JWT
  /\ Received
  /\ inbound.method = "POST"
  /\ InboundAuth = <<"Bearer", " ", "jwt.s1.expired">>
  /\ authLog.verified
  /\ pc = "done"
  /\ response.status = Unauthorized

\* C3: with enforcement on, a request other than OPTIONS that passes the
\* method gate and whose authorization header is not exactly Bearer, one
\* space, one token, is answered with 401 and is not forwarded.
C3_MalformedBearerRejected ==
  (/\ Received
   /\ VERIFY_JWT
   /\ (inbound.method = "POST" \/ InboundIsUpgrade)
   /\ ~IsBearerToken(InboundAuth))
    => /\ outbound = <<>>
       /\ pc = "done" => response.status = Unauthorized

\* C4: with enforcement on, an OPTIONS request is forwarded to the origin
\* without its token being extracted or verified, whatever its authorization
\* header; the relay never answers it with Unauthorized (a 401 it delivers is
\* the origin's own response).
C4_OptionsBypassesAuth ==
  (Received /\ VERIFY_JWT /\ inbound.method = "OPTIONS")
    => /\ ~authLog.extracted
       /\ ~authLog.verified
       /\ token = Undefined
       /\ Len(outbound) = 1
       /\ outbound[1].kind = "fetch"
       /\ failure.status # Unauthorized
       /\ response.status = Unauthorized
            => (fetched.status = Unauthorized
                /\ HeadersGet(response.headers, "x-relay-error") = Null)

C4_Witness ==
  /\ VERIFY_JWT
  /\ inbound.method = "OPTIONS"
  /\ InboundAuth = <<"Bearer", " ", "garbage">>
  /\ pc = "done"
  /\ Len(outbound) = 1
  /\ response.status = 200

\* C5: whatever is sent to the origin (fetch or WebSocket) has the path and
\* the query string of the request as received.
C5_PathAndQueryPreserved ==
  \A i \in DOMAIN outbound :
    /\ outbound[i].url.pathname = inbound.url.pathname
    /\ outbound[i].url.search = inbound.url.search

C5_Witness ==
  /\ ~VERIFY_JWT
  /\ DENO_ORIGIN.protocol = "http:"
  /\ DENO_ORIGIN.port = "9000"
  /\ inbound.method = "POST"
  /\ inbound.url.pathname = "/items"
  /\ inbound.url.search = "?x=1"
  /\ Len(outbound) = 1
  /\ outbound[1].url = [protocol |-> "http:", hostname |-> "origin",
                        port |-> "9000", pathname |-> "/items",
                        search |-> "?x=1"]

\* C6: whatever is sent to the origin has the scheme, host and port of the
\* configured origin (the WebSocket equivalent of the scheme on the WebSocket
\* path).
C6_TargetIsOrigin ==
  \A i \in DOMAIN outbound :
    LET origin == NewURL(DENO_ORIGIN)
        url == outbound[i].url
    IN /\ url.hostname = origin.hostname
       /\ url.port = origin.port
       /\ url.protocol = IF outbound[i].kind = "websocket"
                         THEN ReplaceHttpWithWs(origin.protocol)
                         ELSE origin.protocol

\* C7: whatever is sent to the origin (fetch or WebSocket) carries the header
\* x-forwarded-host with the hostname of the rewritten URL, whatever the
\* caller sent under that name, and every other header of the request.
C7_ForwardedHostOnEveryOutbound ==
  \A i \in DOMAIN outbound :
    LET h == outbound[i].headers
    IN /\ X_FORWARDED_HOST \in DOMAIN h
       /\ h[X_FORWARDED_HOST] = <<outbound[i].url.hostname>>
       /\ \A j \in DOMAIN inbound.headers :
            LET n == toLowerCase(inbound.headers[j].name)
            IN n # X_FORWARDED_HOST
                 => (n \in DOMAIN h /\ h[n] = HeadersGet(inbound.headers, n))

\* C8: the response to the caller never has a set-cookie header, in any
\* letter case, however many the origin sent.
C8_NoSetCookie ==
  \A i \in DOMAIN response.headers :
    toLowerCase(response.headers[i].name) # "set-cookie"

C8_Witness ==
  /\ pc = "done"
  /\ fetched.headers = <<[name |-> "Set-Cookie", value |-> <<"a=1">>],
                         [name |-> "set-cookie", value |-> <<"b=2">>]>>
  /\ response.status = 200
  /\ response.headers = <<>>

\* a failure the boundary caught was caught once and became the response:
\* the failure's status (500 when it has none), its message as body and the
\* header x-relay-error: true; the catch runs only for a failure
CaughtOnce ==
  /\ caught = IF failure = NoFailure THEN 0 ELSE 1
  /\ failure # NoFailure
       => /\ pc = "done"
          /\ response.status = IF failure.status # 0 THEN failure.status
                               ELSE InternalServerError
          /\ response.body = <<failure.message>>
          /\ HeadersGet(response.headers, "x-relay-error") = <<"true">>

\* C9: every failure raised in the inner stage, the WebSocket relay included,
\* is caught once by the boundary and becomes the response (the failure's
\* status or 500, its message, x-relay-error: true), and no failure escapes
\* the pipeline unhandled.
C9_ErrorBoundary ==
  /\ CaughtOnce
  /\ uncaught = NoFailure

\* the origin socket of the relay closed without ever opening
OriginRefused == upstream.onclose /\ upstream.failed

\* C10: when the origin's WebSocket connection cannot be established, the
\* handler completes with a failure that reached the boundary instead of
\* waiting forever, and the caller is not left upgraded: stated of the states
\* in which no event is left to happen, which is where a wait that never
\* ends shows.
C10_RefusedUpgradeFails ==
  (OriginRefused /\ ~ENABLED Next)
    => (pc = "done" /\ failure # NoFailure /\ downstream.state # "OPEN")

\* the two sockets of a session are bound to each other
Paired == upstream.onclose /\ downstream.onclose

\* neither side of the session has closed or started to close
NoSideClosed ==
  /\ closeEvents = 0
  /\ ~upstream.closeFrame
  /\ ~downstream.closeFrame

\* C11: while neither side of a WebSocket session has closed or started the
\* closing handshake, the frames handed to the origin are exactly the frames
\* the caller sent on its upgraded connection, in order, and the frames
\* handed to the caller are exactly the frames the origin sent.
C11_EveryFrameDelivered ==
  (Paired /\ NoSideClosed)
    => /\ toOrigin = callerSent
       /\ toCaller = originSent

\* C12: in a WebSocket session, once one socket has had its close event, close
\* has been invoked on the other one (it is closing or closed), also when the
\* origin connection never opened.
C12_CloseReachesTheOther ==
  Paired
    => /\ upstream.state = "CLOSED" => downstream.state \in {"CLOSING", "CLOSED"}
       /\ downstream.state = "CLOSED" => upstream.state \in {"CLOSING", "CLOSED"}

\* the caller went away while the origin connection was still pending
C12_Witness ==
  /\ Paired
  /\ downstream.state = "CLOSED"
  /\ upstream.state = "CLOSING"
  /\ ~upstream.onmessage

\* C13: sanitizing the sanitized headers of an origin response gives the same
\* headers again, and neither result has a set-cookie entry.
C13_SanitizeIdempotent ==
  fetched # NoResponse
    => LET once == sanitizeHeaders(fetched.headers)
           twice == sanitizeHeaders(once)
       IN /\ response.headers = once
          /\ twice = once
          /\ \A i \in DOMAIN once : toLowerCase(once[i].name) # "set-cookie"
          /\ \A i \in DOMAIN twice : toLowerCase(twice[i].name) # "set-cookie"

\* an origin response with a cookie header and another header was relayed
C13_Witness ==
  /\ pc = "done"
  /\ fetched # NoResponse
  /\ \E i \in DOMAIN fetched.headers :
       toLowerCase(fetched.headers[i].name) = "set-cookie"
  /\ \E i \in DOMAIN fetched.headers :
       toLowerCase(fetched.headers[i].name) = "vary"
  /\ HeadersGet(response.headers, "vary") # Null

\* the entries of an origin response that are not cookie-setting
OtherEntries == {i \in DOMAIN fetched.headers :
                   toLowerCase(fetched.headers[i].name) \notin headerDenyList}

\* C14 as stated: every entry of the origin response other than set-cookie is
\* an entry of the relayed headers, with its name in the case received and its
\* value on its own, and the relayed headers have no other entry.
C14_EntriesUnchanged ==
  fetched # NoResponse
    => /\ \A i \in OtherEntries :
            \E j \in DOMAIN response.headers :
              response.headers[j] = fetched.headers[i]
       /\ Len(response.headers) = Cardinality(OtherEntries)

\* C14: the relayed headers have one entry for every name of the origin
\* response other than set-cookie, under the lower-cased name, whose value is
\* the values of that name joined with ", " in the order received; they have
\* no other entry.
C14_EntriesNormalised ==
  fetched # NoResponse
    => LET names == {toLowerCase(fetched.headers[i].name) : i \in OtherEntries}
       IN /\ \A n \in names :
               \E j \in DOMAIN response.headers :
                 /\ response.headers[j].name = n
                 /\ response.headers[j].value = HeadersGet(fetched.headers, n)
          /\ Len(response.headers) = Cardinality(names)

\* a name sent twice in two cases
C14_Witness ==
  /\ fetched # NoResponse
  /\ fetched.headers = <<[name |-> "Vary", value |-> <<"accept">>],
                         [name |-> "vary", value |-> <<"origin">>]>>
  /\ response.headers =
       <<[name |-> "vary", value |-> <<"accept", ",", " ", "origin">>]>>

\* C15: the response to the caller has the status, the body and the type of
\* the origin's response to the forwarded request, the sanitized copy of its
\* headers, and no x-relay-error header.
C15_OriginResponseRelayed ==
  replied # NoResponse
    => /\ response.status = replied.status
       /\ response.body = replied.body
       /\ response.type = replied.type
       /\ response.headers = sanitizeHeaders(replied.headers)
       /\ HeadersGet(response.headers, "x-relay-error") = Null

\* a frame was handed to the origin or to the caller in this step
Forwarded == toOrigin' # toOrigin \/ toCaller' # toCaller

\* C16: a frame is forwarded only while the origin connection is open and no
\* socket of the session has closed; a socket that is closed stays closed, a
\* socket that is closing does not open again, and the message bindings, once
\* installed, stay.
C16_SessionMovesForward ==
  [][/\ Forwarded => /\ upstream.state = "OPEN"
                     /\ upstream.onmessage /\ downstream.onmessage
                     /\ closeEvents = 0
     /\ upstream.state = "CLOSED" => upstream'.state = "CLOSED"
     /\ downstream.state = "CLOSED" => downstream'.state = "CLOSED"
     /\ upstream.state = "CLOSING" => upstream'.state \in {"CLOSING", "CLOSED"}
     /\ downstream.state = "CLOSING" =>
          downstream'.state \in {"CLOSING", "CLOSED"}
     /\ upstream.state = "OPEN" => upstream'.state # "CONNECTING"]_vars

\* frames were relayed, the session closed, and a frame that came after the
\* close was not relayed
C16_Witness ==
  /\ upstream.state = "CLOSED"
  /\ downstream.state = "CLOSED"
  /\ toOrigin # <<>>
  /\ toCaller # <<>>
  /\ Len(toOrigin) < Len(callerSent)

\* no part of the authorization header is a token that verifies
NoValidToken ==
  \/ InboundAuth = Null
  \/ \A i \in DOMAIN InboundAuth : jwtVerify(<<InboundAuth[i]>>, JWT_SECRET) # "ok"

\* C17: for a request rejected with 405 or 401 nothing was sent to the origin,
\* no origin socket was created and the caller was not upgraded; with
\* enforcement on, an upgrading GET without a valid token is never upgraded.
C17_RejectedNeverReachesOrigin ==
  /\ failure.status \in {MethodNotAllowed, Unauthorized}
       => /\ outbound = <<>>
          /\ upstream = NoSocket
          /\ downstream = NoSocket
  /\ (Received /\ VERIFY_JWT /\ InboundIsUpgrade /\ NoValidToken)
       => /\ outbound = <<>>
          /\ upstream = NoSocket
          /\ downstream = NoSocket

\* an upgrading GET whose token was verified and refused
C17_Witness ==
  /\ Received
  /\ VERIFY_JWT
  /\ InboundIsUpgrade
  /\ inbound.upgradable
  /\ authLog.verified
  /\ pc = "done"
  /\ failure.status = Unauthorized

\* no closing handshake is in progress: no close() of the relay and no Close
\* frame of a peer is waiting for the close event
NoCloseInProgress ==
  /\ upstream.state # "CLOSING"
  /\ downstream.state # "CLOSING"

\* C18: the close handlers of a session fire at most twice in all, and once
\* one of them has fired and no close() it called is still in progress, the
\* session is at rest with both sockets closed: the first close event alone,
\* through the handlers, brings the other socket down, and the second one
\* starts nothing.
C18_TeardownTerminates ==
  Paired
    => /\ closeEvents <= 2
       /\ (closeEvents > 0 /\ NoCloseInProgress)
            => /\ upstream.state = "CLOSED"
               /\ downstream.state = "CLOSED"
               /\ closeEvents = 2

\* both handlers have fired, the second on the socket the first had closed
C18_Witness ==
  /\ Paired
  /\ Alive
  /\ closeEvents = 2
  /\ NoCloseInProgress
  /\ upstream.state = "CLOSED"
  /\ downstream.state = "CLOSED"

\* the connection waits for an await or for an event of its sockets
Pending(c) ==
  \/ c.pc \in {"verify", "fetch", "upgrade"}
  \/ c.upstream.state \in {"CONNECTING", "OPEN", "CLOSING"}
  \/ c.downstream.state \in {"CONNECTING", "OPEN", "CLOSING"}

\* the process ended under a waiting connection by an exception that left a
\* callback of another connection
CutShort(k) ==
  /\ conns[k].uncaught = NoFailure
  /\ Pending(conns[k])
  /\ \E j \in Conns \ {k} : conns[j].uncaught # NoFailure

\* C19: whatever the interleaving of the connections, the configuration is
\* the one of the startup, the context of every connection is what the events
\* of that connection alone make of it (its response, its outbound requests,
\* its sockets and its relayed frames), and no connection is stopped by what
\* happens in another.
C19_ConnectionsIsolated ==
  /\ JWT_SECRET = "s1"
  /\ DENO_ORIGIN = SessionOrigin
  /\ VERIFY_JWT
  /\ \A k \in Conns : conns[k] = alone[k] /\ ~CutShort(k)

====
